---------------------------- MODULE Spec2Model ----------------------------
(***************************************************************************)
(* Lane Leaper Runner: the simulation core of                              *)
(* src/components/game/GameEngine.tsx (health-bearing variant).            *)
(*                                                                         *)
(* Every handler (animation-frame tick, key press, button click, timeout   *)
(* callback) is one atomic action.  A handler reads the values of the      *)
(* render it was created in (its closure) and queues state updates; React  *)
(* applies the queued updates in order and re-renders before the next      *)
(* handler runs.  A value read through the closure (player, obstacles,     *)
(* score, highScore in checkCollisions) is therefore the value from        *)
(* BEFORE the handler's own updates, while a functional update             *)
(* (setX(prev => ...)) sees the result of the updates queued before it.    *)
(*                                                                         *)
(* Numbers: jumpHeight, jumpVelocity and the player's box y are kept in    *)
(* tenths of a pixel (GRAVITY is 0.9), particle life in hundredths.        *)
(* Math.random draws are nondeterministic choices.  A particle's random    *)
(* velocity and size are not modelled; a particle keeps its emission       *)
(* point.                                                                  *)
(***************************************************************************)
EXTENDS Integers, Sequences, FiniteSets, TLC

VARIABLES
    gameState,      \* 'start' | 'playing' | 'paused' | 'gameOver'
    score, coins, highScore, level,
    player,
    obstacles, gameCoins, powerUps, particles,
    obstacleId, coinId, powerUpId, particleId,   \* the four id refs
    distance,       \* distanceRef
    frameCount,     \* frameCountRef
    timers,         \* outstanding setTimeout callbacks, oldest first
    session,        \* history: number of startGame calls so far
    ticksLeft       \* exploration: ticks still to be run

vars == <<gameState, score, coins, highScore, level, player, obstacles,
          gameCoins, powerUps, particles, obstacleId, coinId, powerUpId,
          particleId, distance, frameCount, timers, session, ticksLeft>>

(***************************************************************************)
(* Bounds of the exploration                                               *)
(***************************************************************************)
MaxTicks == 4        \* ticks explored from construction and from a hit
PickupTicks == 2     \* ticks explored from a pickup
MaxSessions == 2     \* startGame calls explored
MaxSlideTimers == 2  \* outstanding slide timeouts

(***************************************************************************)
(* Program constants                                                       *)
(***************************************************************************)
Scale == 10                  \* fixed-point denominator of the tenths
GAME_WIDTH == 900
GAME_HEIGHT == 600
LANE_WIDTH == GAME_WIDTH \div 3
PLAYER_WIDTH == 40
PLAYER_HEIGHT == 60
GAME_SPEED == 6
JUMP_POWER == 18
GRAVITY10 == 9               \* GRAVITY = 0.9, in tenths
MAX_JUMP_HEIGHT == 120
DAMAGE == 25
POWERUP_DURATION == 10000
TICK_MS == 16
OBSTACLE_INTERVAL == 100
COIN_INTERVAL == 150
POWERUP_INTERVAL == 300

Lanes == 0..2
ObstacleTypes == {"barrier", "train", "tunnel", "spike", "laser"}
CoinTypes == {"normal", "gold", "diamond"}
PowerUpTypes == {"shield", "speed", "magnet", "health"}
Keys == {"ArrowLeft", "ArrowRight", " ", "ArrowUp", "ArrowDown", "p"}

RED == "hsl(0, 100%, 50%)"
BLUE == "hsl(195, 100%, 55%)"
GOLD == "hsl(45, 100%, 60%)"

Max(a, b) == IF a >= b THEN a ELSE b
Min(a, b) == IF a <= b THEN a ELSE b


(***************************************************************************)
(* Construction and startGame                                              *)
(***************************************************************************)
InitialPlayer ==
    [lane |-> 1,
     x |-> LANE_WIDTH + LANE_WIDTH \div 2 - PLAYER_WIDTH \div 2,
     y |-> GAME_HEIGHT - 100,
     isJumping |-> FALSE, isSliding |-> FALSE,
     jumpHeight |-> 0, jumpVelocity |-> 0,
     health |-> 100, maxHealth |-> 100,
     isInvulnerable |-> FALSE,
     powerUpActive |-> FALSE, powerUpType |-> "null", powerUpTimer |-> 0]

Constructed ==
    [gameState |-> "start", score |-> 0, coins |-> 0, highScore |-> 0,
     level |-> 1, player |-> InitialPlayer,
     obstacles |-> <<>>, gameCoins |-> <<>>, powerUps |-> <<>>,
     particles |-> <<>>,
     obstacleId |-> 0, coinId |-> 0, powerUpId |-> 0, particleId |-> 0,
     distance |-> 0, frameCount |-> 0, timers |-> <<>>, session |-> 0]

\* mutant: the player is carried over into the new session
StartGame_KeepsPlayer(s) ==
    [s EXCEPT !.gameState = "playing", !.score = 0, !.coins = 0,
              !.level = 1, !.distance = 0, !.frameCount = 0,
              !.obstacles = <<>>, !.gameCoins = <<>>, !.powerUps = <<>>,
              !.particles = <<>>, !.session = s.session + 1]

StartGame(s) ==
    [s EXCEPT !.gameState = "playing", !.score = 0, !.coins = 0,
              !.level = 1, !.distance = 0, !.frameCount = 0,
              !.obstacles = <<>>, !.gameCoins = <<>>, !.powerUps = <<>>,
              !.particles = <<>>, !.player = InitialPlayer,
              !.session = s.session + 1]

\* a Main Menu button that pauses
ResetGame_ToPaused(s) == [s EXCEPT !.gameState = "paused"]
ResetGame(s) == [s EXCEPT !.gameState = "start"]

(***************************************************************************)
(* handleKeyPress and the menu buttons                                     *)
(***************************************************************************)
LaneX(lane) == lane * LANE_WIDTH + LANE_WIDTH \div 2 - PLAYER_WIDTH \div 2

\* mutant: no test of the left edge
MoveLeft_Unclamped(p) == [p EXCEPT !.lane = p.lane - 1, !.x = LaneX(p.lane - 1)]

MoveLeft(p) ==
    IF p.lane > 0
    THEN [p EXCEPT !.lane = p.lane - 1, !.x = LaneX(p.lane - 1)]
    ELSE p

MoveRight(p) ==
    IF p.lane < 2
    THEN [p EXCEPT !.lane = p.lane + 1, !.x = LaneX(p.lane + 1)]
    ELSE p

\* a jump that starts at any height
Jump_Always(p) == [p EXCEPT !.isJumping = TRUE, !.jumpVelocity = 0]

Jump(p) ==
    IF p.jumpHeight = 0
    THEN [p EXCEPT !.isJumping = TRUE, !.jumpVelocity = 0]
    ELSE p

Slide(p) == [p EXCEPT !.isSliding = TRUE]

Timer(kind, s) == [kind |-> kind, session |-> s.session]

TogglePause(s) ==
    IF s.gameState = "playing" THEN [s EXCEPT !.gameState = "paused"]
    ELSE IF s.gameState = "paused" THEN [s EXCEPT !.gameState = "playing"]
    ELSE s

\* a key handler without the phase tests
HandleKeyPress_NoPhaseTest(s, key) ==
    CASE key = "ArrowLeft"  -> [s EXCEPT !.player = MoveLeft(s.player)]
      [] key = "ArrowRight" -> [s EXCEPT !.player = MoveRight(s.player)]
      [] key \in {" ", "ArrowUp"} -> [s EXCEPT !.player = Jump(s.player)]
      [] key = "ArrowDown" ->
           [s EXCEPT !.player = Slide(s.player),
                     !.timers = Append(s.timers, Timer("slide", s))]
      [] key = "p" -> TogglePause(s)
      [] OTHER -> s

HandleKeyPress(s, key) ==
    IF s.gameState = "start" \/ s.gameState = "gameOver"
    THEN IF key = " " THEN StartGame(s) ELSE s
    ELSE IF s.gameState = "paused"
    THEN IF key = " " THEN [s EXCEPT !.gameState = "playing"] ELSE s
    ELSE IF s.gameState # "playing" THEN s
    ELSE CASE key = "ArrowLeft"  -> [s EXCEPT !.player = MoveLeft(s.player)]
           [] key = "ArrowRight" -> [s EXCEPT !.player = MoveRight(s.player)]
           [] key \in {" ", "ArrowUp"} -> [s EXCEPT !.player = Jump(s.player)]
           [] key = "ArrowDown" ->
                [s EXCEPT !.player = Slide(s.player),
                          !.timers = Append(s.timers, Timer("slide", s))]
           [] key = "p" -> TogglePause(s)
           [] OTHER -> s

SlideTimers(s) == Cardinality({i \in DOMAIN s.timers : s.timers[i].kind = "slide"})

\* timeouts of equal delay run in the order they were set
CanFire(s, i) ==
    /\ i \in DOMAIN s.timers
    /\ \A j \in 1..(i - 1) : s.timers[j].kind # s.timers[i].kind

RemoveAt(seq, i) == SubSeq(seq, 1, i - 1) \o SubSeq(seq, i + 1, Len(seq))

TimeoutEffect(kind, p) ==
    IF kind = "slide" THEN [p EXCEPT !.isSliding = FALSE]
    ELSE [p EXCEPT !.isInvulnerable = FALSE]

FireTimer(s, i) ==
    [s EXCEPT !.player = TimeoutEffect(s.timers[i].kind, s.player),
              !.timers = RemoveAt(s.timers, i)]

(***************************************************************************)
(* gameLoop: the updates of one tick                                       *)
(***************************************************************************)
\* a fall that stops one step above the floor
Physics_Hover(p) ==
    IF p.isJumping
    THEN LET v == p.jumpVelocity + JUMP_POWER * Scale
             h == p.jumpHeight + v
         IN  IF h >= MAX_JUMP_HEIGHT * Scale
             THEN [p EXCEPT !.jumpHeight = h, !.jumpVelocity = 0, !.isJumping = FALSE]
             ELSE [p EXCEPT !.jumpHeight = h, !.jumpVelocity = v]
    ELSE IF p.jumpHeight > GRAVITY10
    THEN [p EXCEPT !.jumpHeight = p.jumpHeight - GRAVITY10]
    ELSE p

Physics(p) ==
    IF p.isJumping
    THEN LET v == p.jumpVelocity + JUMP_POWER * Scale
             h == p.jumpHeight + v
         IN  IF h >= MAX_JUMP_HEIGHT * Scale
             THEN [p EXCEPT !.jumpHeight = h, !.jumpVelocity = 0, !.isJumping = FALSE]
             ELSE [p EXCEPT !.jumpHeight = h, !.jumpVelocity = v]
    ELSE IF p.jumpHeight > 0
    THEN LET h == p.jumpHeight - GRAVITY10
         IN  IF h <= 0
             THEN [p EXCEPT !.jumpHeight = 0, !.jumpVelocity = 0]
             ELSE [p EXCEPT !.jumpHeight = h]
    ELSE p

\* a countdown that forgets to clear the kind
PowerUpCountdown_KeepsKind(p) ==
    IF p.powerUpActive /\ p.powerUpTimer > 0
    THEN LET t == p.powerUpTimer - TICK_MS
         IN  IF t <= 0
             THEN [p EXCEPT !.powerUpTimer = t, !.powerUpActive = FALSE]
             ELSE [p EXCEPT !.powerUpTimer = t]
    ELSE p

\* a countdown that clears the slot only below zero
PowerUpCountdown_Late(p) ==
    IF p.powerUpActive /\ p.powerUpTimer > 0
    THEN LET t == p.powerUpTimer - TICK_MS
         IN  IF t < 0
             THEN [p EXCEPT !.powerUpTimer = t, !.powerUpActive = FALSE,
                            !.powerUpType = "null"]
             ELSE [p EXCEPT !.powerUpTimer = t]
    ELSE p

PowerUpCountdown(p) ==
    IF p.powerUpActive /\ p.powerUpTimer > 0
    THEN LET t == p.powerUpTimer - TICK_MS
         IN  IF t <= 0
             THEN [p EXCEPT !.powerUpTimer = t, !.powerUpActive = FALSE,
                            !.powerUpType = "null"]
             ELSE [p EXCEPT !.powerUpTimer = t]
    ELSE p

\* rotation in hundredths of a radian
MoveObstacle(o) == [o EXCEPT !.y = o.y + GAME_SPEED, !.rotation = o.rotation + 2,
                             !.animationFrame = o.animationFrame + 1]
MoveCoin(c) == [c EXCEPT !.y = c.y + GAME_SPEED, !.rotation = c.rotation + 5,
                         !.animationFrame = c.animationFrame + 1]
MovePowerUp(u) == [u EXCEPT !.y = u.y + GAME_SPEED, !.rotation = u.rotation + 3,
                            !.animationFrame = u.animationFrame + 1]
MoveParticle(q) == [q EXCEPT !.life = q.life - 2]

ObstacleLive(o) == o.y < GAME_HEIGHT + 100
\* a filter that also drops collected coins
CoinLive_Uncollected(c) == ~c.collected /\ c.y < GAME_HEIGHT + 50
CoinLive(c) == c.y < GAME_HEIGHT + 50
PowerUpLive(u) == u.y < GAME_HEIGHT + 50
ParticleLive(q) == q.life > 0

AdvanceObstacles(os) == SelectSeq([i \in 1..Len(os) |-> MoveObstacle(os[i])], ObstacleLive)
AdvanceCoins(cs) == SelectSeq([i \in 1..Len(cs) |-> MoveCoin(cs[i])], CoinLive)
AdvancePowerUps(us) == SelectSeq([i \in 1..Len(us) |-> MovePowerUp(us[i])], PowerUpLive)
AdvanceParticles(qs) == SelectSeq([i \in 1..Len(qs) |-> MoveParticle(qs[i])], ParticleLive)

ObstacleWidth(type) == IF type = "spike" THEN 40 ELSE IF type = "laser" THEN 80 ELSE 60
ObstacleHeight(type) == IF type = "spike" THEN 60 ELSE IF type = "laser" THEN 20 ELSE 80

NewObstacle(id, lane, type) ==
    [id |-> id, lane |-> lane,
     x |-> lane * LANE_WIDTH + LANE_WIDTH \div 2 - ObstacleWidth(type) \div 2,
     y |-> 50, width |-> ObstacleWidth(type), height |-> ObstacleHeight(type),
     type |-> type, rotation |-> 0, animationFrame |-> 0]

\* every coin worth one
CoinValue_Flat(type) == 1
CoinValue(type) == IF type = "normal" THEN 1 ELSE IF type = "gold" THEN 5 ELSE 10

NewCoin(id, lane, type) ==
    [id |-> id, lane |-> lane,
     x |-> lane * LANE_WIDTH + LANE_WIDTH \div 2 - 15,
     y |-> 30, collected |-> FALSE, value |-> CoinValue(type), type |-> type,
     rotation |-> 0, animationFrame |-> 0]

NewPowerUp(id, lane, type) ==
    [id |-> id, lane |-> lane,
     x |-> lane * LANE_WIDTH + LANE_WIDTH \div 2 - 20,
     y |-> 30, type |-> type, collected |-> FALSE,
     rotation |-> 0, animationFrame |-> 0]

\* a trigger every 60 units of distance
SpawnsObstacle_Dense(d) == d % 60 = 0

\* a trigger on crossing a multiple instead of landing on one
SpawnsObstacle_Crossing(d) ==
    d \div OBSTACLE_INTERVAL > (d - GAME_SPEED) \div OBSTACLE_INTERVAL
SpawnsObstacle(d) == d % OBSTACLE_INTERVAL = 0
SpawnsCoin(d) == d % COIN_INTERVAL = 0
SpawnsPowerUp(d) == d % POWERUP_INTERVAL = 0

\* createParticle(x, y, color, count): count particles with fresh ids
Burst(firstId, x, y, color, count) ==
    [i \in 1..count |-> [id |-> firstId + i - 1, x0 |-> x, y0 |-> y,
                         life |-> 100, maxLife |-> 100, color |-> color]]

(***************************************************************************)
(* checkCollisions.  snap is the render the callback closed over, s1 the   *)
(* state after the updates the tick queued before calling it.              *)
(***************************************************************************)
PlayerRect(p) ==
    [x |-> p.x,
     y |-> p.y * Scale - p.jumpHeight + (IF p.isSliding THEN 20 * Scale ELSE 0),
     width |-> PLAYER_WIDTH,
     height |-> IF p.isSliding THEN (PLAYER_HEIGHT * 6) \div 10 ELSE PLAYER_HEIGHT]

\* axis-aligned overlap of the player's box r (y in tenths) with a box in pixels
Overlaps(r, ex, ey, ew, eh) ==
    /\ ex < r.x + r.width
    /\ ex + ew > r.x
    /\ ey * Scale < r.y + r.height * Scale
    /\ (ey + eh) * Scale > r.y

HitsObstacle(r, o) == Overlaps(r, o.x, o.y, o.width, o.height)

\* index of the first overlapping obstacle in creation order, 0 if none
FirstHit(r, os) ==
    LET hits == {i \in DOMAIN os : HitsObstacle(r, os[i])}
    IN  IF hits = {} THEN 0 ELSE CHOOSE i \in hits : \A j \in hits : i <= j

\* mutant: the invulnerability test is dropped
SkipsCollisions_Never(p) == FALSE

SkipsCollisions(p) == p.isInvulnerable

\* mutant: the shield is not consulted
ShieldUp_Ignored(p) == FALSE

ShieldUp(p) == p.powerUpActive /\ p.powerUpType = "shield"

\* mutant: a different damage amount
TakeDamage_Weak(prev) ==
    [prev EXCEPT !.health = Max(0, prev.health - 20), !.isInvulnerable = TRUE]

TakeDamage(prev) ==
    [prev EXCEPT !.health = Max(0, prev.health - DAMAGE), !.isInvulnerable = TRUE]

\* mutant: strict comparison
Dies_Strict(p) == p.health < 25

Dies(p) == p.health <= 25

NewHighScore(sc, hs) == IF sc > hs THEN sc ELSE hs

Emit(s, x, y, color, count) ==
    [s EXCEPT !.particles = @ \o Burst(s.particleId, x, y, color, count),
              !.particleId = @ + count]

\* a coin test that forgets the collected flag
CollectsCoin_Again(r, c) == Overlaps(r, c.x, c.y, 30, 30)

CollectsCoin(r, c) == ~c.collected /\ Overlaps(r, c.x, c.y, 30, 30)

CollectsPowerUp(r, u) == ~u.collected /\ Overlaps(r, u.x, u.y, 40, 40)

\* a pickup that never heals
ApplyPowerUp_NoHeal(prev, type) ==
    [prev EXCEPT !.powerUpActive = TRUE, !.powerUpType = type,
                 !.powerUpTimer = POWERUP_DURATION]

\* a pickup that leaves a running countdown alone
ApplyPowerUp_KeepsTimer(prev, type) ==
    [prev EXCEPT !.powerUpActive = TRUE, !.powerUpType = type,
                 !.powerUpTimer = IF prev.powerUpActive THEN prev.powerUpTimer
                                  ELSE POWERUP_DURATION,
                 !.health = IF type = "health"
                            THEN Min(prev.maxHealth, prev.health + 25)
                            ELSE prev.health]

ApplyPowerUp(prev, type) ==
    [prev EXCEPT !.powerUpActive = TRUE, !.powerUpType = type,
                 !.powerUpTimer = POWERUP_DURATION,
                 !.health = IF type = "health"
                            THEN Min(prev.maxHealth, prev.health + 25)
                            ELSE prev.health]

\* the coin scan: each collected coin adds its value and emits a burst
RECURSIVE ScanCoins(_, _, _)
ScanCoins(r, s, i) ==
    IF i > Len(s.gameCoins) THEN s
    ELSE LET c == s.gameCoins[i]
         IN  IF CollectsCoin(r, c)
             THEN ScanCoins(r,
                    Emit([s EXCEPT !.gameCoins[i].collected = TRUE,
                                   !.coins = @ + c.value],
                         c.x + 15, c.y + 15, GOLD, 8),
                    i + 1)
             ELSE ScanCoins(r, s, i + 1)

\* the power-up scan
RECURSIVE ScanPowerUps(_, _, _)
ScanPowerUps(r, s, i) ==
    IF i > Len(s.powerUps) THEN s
    ELSE LET u == s.powerUps[i]
         IN  IF CollectsPowerUp(r, u)
             THEN ScanPowerUps(r,
                    Emit([s EXCEPT !.powerUps[i].collected = TRUE,
                                   !.player = ApplyPowerUp(s.player, u.type)],
                         u.x + 20, u.y + 20, BLUE, 12),
                    i + 1)
             ELSE ScanPowerUps(r, s, i + 1)

CheckCollisions(snap, s1) ==
    LET p == snap.player
        r == PlayerRect(p)
    IN  IF SkipsCollisions(p) THEN s1
        ELSE IF FirstHit(r, snap.obstacles) # 0
        THEN IF ShieldUp(p)
             THEN Emit(s1, p.x + PLAYER_WIDTH \div 2, p.y, BLUE, 10)
             ELSE LET s2 == Emit([s1 EXCEPT !.player = TakeDamage(s1.player)],
                                 p.x + PLAYER_WIDTH \div 2, p.y, RED, 15)
                  IN  IF Dies(p)
                      THEN [s2 EXCEPT !.gameState = "gameOver",
                                      !.highScore = NewHighScore(snap.score, snap.highScore)]
                      ELSE [s2 EXCEPT !.timers = Append(@, Timer("invulnerable", snap))]
        ELSE ScanPowerUps(r, ScanCoins(r, s1, 1), 1)

\* a tick that derives the level from the score of the render before
GameLoop_StaleLevel(s, d) ==
    LET dist == s.distance + GAME_SPEED
        newScore == dist \div 10
        s1 == [s EXCEPT
                 !.frameCount = @ + 1,
                 !.player = PowerUpCountdown(Physics(s.player)),
                 !.obstacles = AdvanceObstacles(@) \o
                     (IF SpawnsObstacle(dist)
                      THEN <<NewObstacle(s.obstacleId, d.oLane, d.oType)>> ELSE <<>>),
                 !.gameCoins = AdvanceCoins(@) \o
                     (IF SpawnsCoin(dist)
                      THEN <<NewCoin(s.coinId, d.cLane, d.cType)>> ELSE <<>>),
                 !.powerUps = AdvancePowerUps(@) \o
                     (IF SpawnsPowerUp(dist)
                      THEN <<NewPowerUp(s.powerUpId, d.pLane, d.pType)>> ELSE <<>>),
                 !.particles = AdvanceParticles(@),
                 !.obstacleId = IF SpawnsObstacle(dist) THEN @ + 1 ELSE @,
                 !.coinId = IF SpawnsCoin(dist) THEN @ + 1 ELSE @,
                 !.powerUpId = IF SpawnsPowerUp(dist) THEN @ + 1 ELSE @,
                 !.distance = dist,
                 !.score = newScore,
                 !.level = s.score \div 100 + 1]
    IN  CheckCollisions(s, s1)

\* d: the Math.random draws of the tick's spawns
GameLoop(s, d) ==
    LET dist == s.distance + GAME_SPEED
        newScore == dist \div 10
        s1 == [s EXCEPT
                 !.frameCount = @ + 1,
                 !.player = PowerUpCountdown(Physics(s.player)),
                 !.obstacles = AdvanceObstacles(@) \o
                     (IF SpawnsObstacle(dist)
                      THEN <<NewObstacle(s.obstacleId, d.oLane, d.oType)>> ELSE <<>>),
                 !.gameCoins = AdvanceCoins(@) \o
                     (IF SpawnsCoin(dist)
                      THEN <<NewCoin(s.coinId, d.cLane, d.cType)>> ELSE <<>>),
                 !.powerUps = AdvancePowerUps(@) \o
                     (IF SpawnsPowerUp(dist)
                      THEN <<NewPowerUp(s.powerUpId, d.pLane, d.pType)>> ELSE <<>>),
                 !.particles = AdvanceParticles(@),
                 !.obstacleId = IF SpawnsObstacle(dist) THEN @ + 1 ELSE @,
                 !.coinId = IF SpawnsCoin(dist) THEN @ + 1 ELSE @,
                 !.powerUpId = IF SpawnsPowerUp(dist) THEN @ + 1 ELSE @,
                 !.distance = dist,
                 !.score = newScore,
                 !.level = newScore \div 100 + 1]
    IN  CheckCollisions(s, s1)

(***************************************************************************)
(* The state machine                                                       *)
(***************************************************************************)
Cur ==
    [gameState |-> gameState, score |-> score, coins |-> coins,
     highScore |-> highScore, level |-> level, player |-> player,
     obstacles |-> obstacles, gameCoins |-> gameCoins, powerUps |-> powerUps,
     particles |-> particles,
     obstacleId |-> obstacleId, coinId |-> coinId, powerUpId |-> powerUpId,
     particleId |-> particleId, distance |-> distance,
     frameCount |-> frameCount, timers |-> timers, session |-> session]

IsState(n) ==
    /\ gameState = n.gameState /\ score = n.score /\ coins = n.coins
    /\ highScore = n.highScore /\ level = n.level /\ player = n.player
    /\ obstacles = n.obstacles /\ gameCoins = n.gameCoins
    /\ powerUps = n.powerUps /\ particles = n.particles
    /\ obstacleId = n.obstacleId /\ coinId = n.coinId
    /\ powerUpId = n.powerUpId /\ particleId = n.particleId
    /\ distance = n.distance /\ frameCount = n.frameCount
    /\ timers = n.timers /\ session = n.session

Becomes(n) ==
    /\ gameState' = n.gameState /\ score' = n.score /\ coins' = n.coins
    /\ highScore' = n.highScore /\ level' = n.level /\ player' = n.player
    /\ obstacles' = n.obstacles /\ gameCoins' = n.gameCoins
    /\ powerUps' = n.powerUps /\ particles' = n.particles
    /\ obstacleId' = n.obstacleId /\ coinId' = n.coinId
    /\ powerUpId' = n.powerUpId /\ particleId' = n.particleId
    /\ distance' = n.distance /\ frameCount' = n.frameCount
    /\ timers' = n.timers /\ session' = n.session

\* the draws a tick makes: one lane and one kind for each entity it spawns
TickDraws(dist) ==
    [oLane : IF SpawnsObstacle(dist) THEN Lanes ELSE {0},
     oType : IF SpawnsObstacle(dist) THEN ObstacleTypes ELSE {"barrier"},
     cLane : IF SpawnsCoin(dist) THEN Lanes ELSE {0},
     cType : IF SpawnsCoin(dist) THEN CoinTypes ELSE {"normal"},
     pLane : IF SpawnsPowerUp(dist) THEN Lanes ELSE {0},
     pType : IF SpawnsPowerUp(dist) THEN PowerUpTypes ELSE {"shield"}]

(***************************************************************************)
(* Initial states: the component as constructed, and sessions already      *)
(* under way.  A session under way is startGame followed by k ticks of     *)
(* gameLoop in which every spawn made the draw d and no key was pressed.   *)
(***************************************************************************)
RECURSIVE Run(_, _, _)
Run(k, s, d) ==
    IF k = 0 THEN s
    ELSE IF k = 1 THEN GameLoop(s, d)
    ELSE LET half == Run(k \div 2, s, d)
         IN  IF half.frameCount >= 0 THEN Run(k - k \div 2, half, d) ELSE half

UnderWay(k, d) == IF k = 0 THEN Constructed ELSE Run(k, StartGame(Constructed), d)

Draw(ol, ot, cl, ct, pl, pt) ==
    [oLane |-> ol, oType |-> ot, cLane |-> cl, cType |-> ct, pLane |-> pl, pType |-> pt]

\* <<k, d, n>>: the state after k ticks with draws d, explored for n ticks.
\* k = 0 is the component as constructed; after 113 ticks the first obstacle
\* has reached the player's row; after 121 ticks the first power-up is about
\* to reach it.
Scenarios ==
    {<<0, Draw(1, "barrier", 1, "normal", 1, "shield"), MaxTicks>>}
    \cup {<<113, Draw(1, ot, 1, "diamond", 1, "shield"), MaxTicks>> :
              ot \in {"barrier", "spike"}}
    \cup {<<121, Draw(2, "barrier", 1, "diamond", 1, pt), PickupTicks>> :
              pt \in {"shield", "health"}}

Init ==
    \E sc \in Scenarios :
        /\ IsState(UnderWay(sc[1], sc[2]))
        /\ ticksLeft = sc[3]

\* a frame callback that runs in every phase
Tick_AnyPhase ==
    /\ ticksLeft > 0
    /\ \E d \in TickDraws(distance + GAME_SPEED) : Becomes(GameLoop(Cur, d))
    /\ ticksLeft' = ticksLeft - 1

Tick ==
    /\ gameState = "playing"
    /\ ticksLeft > 0
    /\ \E d \in TickDraws(distance + GAME_SPEED) : Becomes(GameLoop(Cur, d))
    /\ ticksLeft' = ticksLeft - 1

KeyPress ==
    \E key \in Keys :
        /\ (gameState = "playing" /\ key = "ArrowDown") => SlideTimers(Cur) < MaxSlideTimers
        /\ (gameState \in {"start", "gameOver"} /\ key = " ") => session < MaxSessions
        /\ Becomes(HandleKeyPress(Cur, key))
        /\ UNCHANGED ticksLeft

ClickStart ==
    /\ gameState \in {"start", "gameOver"}
    /\ session < MaxSessions
    /\ Becomes(StartGame(Cur))
    /\ UNCHANGED ticksLeft

ClickResume ==
    /\ gameState = "paused"
    /\ Becomes([Cur EXCEPT !.gameState = "playing"])
    /\ UNCHANGED ticksLeft

ClickMainMenu ==
    /\ gameState \in {"paused", "gameOver"}
    /\ Becomes(ResetGame(Cur))
    /\ UNCHANGED ticksLeft

Timeout ==
    \E i \in DOMAIN timers :
        /\ CanFire(Cur, i)
        /\ Becomes(FireTimer(Cur, i))
        /\ UNCHANGED ticksLeft

Next == Tick \/ KeyPress \/ ClickStart \/ ClickResume \/ ClickMainMenu \/ Timeout

Spec == Init /\ [][Next]_vars

(***************************************************************************)
(* The frame loop on its own: sessions further under way, explored by      *)
(* ticks and timeouts only.  A session here is startGame, k1 ticks with    *)
(* draws d1, one key press (or none), then k2 ticks with draws d2.         *)
(***************************************************************************)
LoopTicks == 2       \* ticks explored in the frame loop on its own

Press(s, key) == IF key = "none" THEN s ELSE HandleKeyPress(s, key)

UnderWay2(k1, d1, key, k2, d2) == Run(k2, Press(UnderWay(k1, d1), key), d2)

\* tick 17 steps over distance 100 (96 to 102); tick 50 reaches 300 and
\* spawns the first obstacle, coin 1 and the first power-up
SpawnScenarios ==
    {<<k1, Draw(0, "barrier", 0, "normal", 0, "shield"), key,
       0, Draw(0, "barrier", 0, "normal", 0, "shield")>> :
        k1 \in {16, 49}, key \in {"none", "ArrowLeft", "ArrowDown"}}

\* tick 124 collects coin 1 when it runs in the player's lane
CoinScenarios ==
    {<<100, Draw(2, "barrier", cl, ct, 1, "shield"), key,
       23, Draw(2, "barrier", cl, ct, 1, "shield")>> :
        cl \in {0, 1}, ct \in CoinTypes, key \in {"none", "ArrowDown"}}

\* tick 122 collects the first power-up, tick 172 the second
PowerUpScenarios ==
    {<<60, Draw(2, "barrier", 0, "normal", 1, p1), "none",
       111, Draw(2, "spike", 0, "gold", pl, p2)>> :
        p1 \in PowerUpTypes, p2 \in PowerUpTypes, pl \in {0, 1}}

\* coin 0 leaves at tick 129, coin 1 and the first power-up at tick 154,
\* the first obstacle at tick 159
ExitScenarios ==
    {<<100, Draw(ol, ot, cl, "gold", pl, "speed"), "none",
       k2, Draw(2, "laser", 0, "normal", 0, "magnet")>> :
        ol \in {0, 2}, ot \in {"barrier", "laser"}, cl \in {0, 1}, pl \in {0, 1},
        k2 \in {27, 52, 57}}

\* tick 113 hits the first obstacle (health 75, invulnerable, timer pending);
\* coin 1 is under the player at tick 124, the second power-up at tick 172
HitScenarios ==
    {<<100, Draw(1, "barrier", 1, ct, 0, "speed"), "none",
       23, Draw(1, "barrier", 1, ct, 0, "speed")>> : ct \in {"normal", "diamond"}}
    \cup {<<60, Draw(1, "barrier", 0, "normal", 0, "shield"), "none",
            111, Draw(2, "spike", 0, "gold", 1, p2)>> : p2 \in {"health", "magnet"}}

\* the first power-up, collected at tick 122 and never overwritten, is about
\* to run out at tick 745; at tick 123 the game is paused with it active
SlotScenarios ==
    {<<60, Draw(2, "barrier", 0, "normal", 1, "shield"), "none",
       685, Draw(2, "spike", 0, "gold", 0, "magnet")>>,
     <<123, Draw(2, "barrier", 0, "normal", 1, "shield"), "p",
       0, Draw(2, "barrier", 0, "normal", 1, "shield")>>}

\* tick 167 takes the distance to 1002, the score to 100 and the level to 2
LevelScenarios ==
    {<<165, Draw(2, "barrier", 0, "normal", 0, "speed"), "none",
       0, Draw(2, "barrier", 0, "normal", 0, "speed")>>}

LoopScenarios ==
    SpawnScenarios \cup CoinScenarios \cup PowerUpScenarios \cup ExitScenarios
        \cup HitScenarios \cup SlotScenarios \cup LevelScenarios

LoopInit ==
    \E sc \in LoopScenarios :
        /\ IsState(UnderWay2(sc[1], sc[2], sc[3], sc[4], sc[5]))
        /\ ticksLeft = LoopTicks

LoopNext == Tick \/ Timeout \/ ClickResume

LoopSpec == LoopInit /\ [][LoopNext]_vars

(***************************************************************************)
(* A whole jump: one session from its start, the frame loop running for    *)
(* as long as the tick budget lasts, and the jump keys.  The loop requests *)
(* its next frame at the end of every tick, hence the fairness of the tick.*)
(***************************************************************************)
JumpTicks == 210     \* ticks explored in the session of a whole jump

\* the draws of the session: obstacles in lane 2, coins and power-ups in lane 0
SteadyDraw == Draw(2, "barrier", 0, "normal", 0, "shield")

JumpInit == IsState(StartGame(Constructed)) /\ ticksLeft = JumpTicks

SteadyTick ==
    /\ gameState = "playing"
    /\ ticksLeft > 0
    /\ Becomes(GameLoop(Cur, SteadyDraw))
    /\ ticksLeft' = ticksLeft - 1

\* the keys are explored while a whole jump, 4 ticks up and 200 down, still
\* fits the tick budget
PressJump ==
    \E key \in {" ", "ArrowUp"} :
        /\ gameState = "playing"
        /\ ticksLeft >= 204
        /\ Becomes(HandleKeyPress(Cur, key))
        /\ UNCHANGED ticksLeft

JumpNext == SteadyTick \/ PressJump

\* the pending frame runs: within JumpNext these are the steps of SteadyTick
FrameRuns == gameState = "playing" /\ ticksLeft > 0 /\ ticksLeft' = ticksLeft - 1

JumpSpec == JumpInit /\ [][JumpNext]_vars /\ WF_ticksLeft(FrameRuns)

(***************************************************************************)
(* The health-less variant of the component: three phases, no health, no   *)
(* power-ups, no particles, every coin worth 1.  It is a program of its    *)
(* own with its own constants; its state lives in the variables gameState, *)
(* score, coins, player, obstacles, gameCoins, obstacleId, coinId,         *)
(* distance and timers, and the other variables keep their initial value.  *)
(* LANE_WIDTH = 800 / 3 is no integer, so horizontal positions are kept in *)
(* thirds of a pixel; jumpHeight is kept in tenths, GRAVITY being 0.8.     *)
(***************************************************************************)
BasicTicks == 3              \* ticks explored from each state of the variant

Thirds == 3                  \* fixed-point denominator of the horizontal positions
BASIC_GAME_WIDTH == 800
BASIC_GAME_HEIGHT == 600
BASIC_LANE_WIDTH3 == BASIC_GAME_WIDTH          \* 3 * (GAME_WIDTH / 3)
BASIC_PLAYER_WIDTH == 40
BASIC_PLAYER_HEIGHT == 60
BASIC_TRACK_HEIGHT == 200
BASIC_GAME_SPEED == 5
BASIC_JUMP_POWER == 15
BASIC_GRAVITY10 == 8                           \* 0.8 in tenths
BasicKeys == {"ArrowLeft", "ArrowRight", " ", "ArrowUp", "ArrowDown"}

\* lane * LANE_WIDTH + LANE_WIDTH / 2 - half, in thirds
BasicLaneX3(lane, half) ==
    lane * BASIC_LANE_WIDTH3 + BASIC_LANE_WIDTH3 \div 2 - Thirds * half

BasicInitialPlayer ==
    [lane |-> 1,
     x |-> BasicLaneX3(1, BASIC_PLAYER_WIDTH \div 2),
     y |-> BASIC_GAME_HEIGHT - BASIC_TRACK_HEIGHT + 50,
     isJumping |-> FALSE, isSliding |-> FALSE, jumpHeight |-> 0]

BasicConstructed ==
    [gameState |-> "start", score |-> 0, coins |-> 0,
     player |-> BasicInitialPlayer,
     obstacles |-> <<>>, gameCoins |-> <<>>,
     obstacleId |-> 0, coinId |-> 0, distance |-> 0, timers |-> <<>>]

BasicStartGame(s) ==
    [s EXCEPT !.gameState = "playing", !.score = 0, !.coins = 0,
              !.distance = 0, !.obstacles = <<>>, !.gameCoins = <<>>,
              !.player = BasicInitialPlayer]

BasicResetGame(s) == [s EXCEPT !.gameState = "start"]

BasicMove(p, lane) ==
    [p EXCEPT !.lane = lane, !.x = BasicLaneX3(lane, BASIC_PLAYER_WIDTH \div 2)]

BasicHandleKeyPress(s, key) ==
    IF s.gameState # "playing" THEN s
    ELSE LET p == s.player
         IN  CASE key = "ArrowLeft" ->
                    IF p.lane > 0 THEN [s EXCEPT !.player = BasicMove(p, p.lane - 1)] ELSE s
               [] key = "ArrowRight" ->
                    IF p.lane < 2 THEN [s EXCEPT !.player = BasicMove(p, p.lane + 1)] ELSE s
               [] key \in {" ", "ArrowUp"} ->
                    IF p.jumpHeight = 0 THEN [s EXCEPT !.player.isJumping = TRUE] ELSE s
               [] key = "ArrowDown" ->
                    [s EXCEPT !.player.isSliding = TRUE,
                              !.timers = Append(@, [kind |-> "slide"])]
               [] OTHER -> s

\* the callback of the 500 ms timeout; it runs in every phase
BasicFireTimer(s) ==
    [s EXCEPT !.player.isSliding = FALSE, !.timers = Tail(@)]

BasicPhysics(p) ==
    IF p.isJumping
    THEN LET h == p.jumpHeight + Scale * BASIC_JUMP_POWER
         IN  [p EXCEPT !.jumpHeight = h, !.isJumping = h < Scale * 100]
    ELSE IF p.jumpHeight > 0
    THEN [p EXCEPT !.jumpHeight = Max(0, p.jumpHeight - BASIC_GRAVITY10)]
    ELSE p

BasicAdvance(seq, bound) ==
    LET moved == [i \in DOMAIN seq |-> [seq[i] EXCEPT !.y = @ + BASIC_GAME_SPEED]]
        Live(e) == e.y < bound
    IN  SelectSeq(moved, Live)

BasicNewObstacle(id, lane) ==
    [id |-> id, lane |-> lane, x |-> BasicLaneX3(lane, 30),
     y |-> BASIC_GAME_HEIGHT - BASIC_TRACK_HEIGHT + 50,
     width |-> Thirds * 60, height |-> 80, type |-> "barrier"]

BasicNewCoin(id, lane) ==
    [id |-> id, lane |-> lane, x |-> BasicLaneX3(lane, 15),
     y |-> BASIC_GAME_HEIGHT - BASIC_TRACK_HEIGHT + 30, collected |-> FALSE]

BasicSpawnsObstacle(dist) == dist % 120 = 0
BasicSpawnsCoin(dist) == dist % 180 = 0

\* The player's box: x and width in thirds, y and height in tenths.  The
\* descent subtracts the double 0.8 from 105, 125 times down to
\* 5.000000000000238 where the real number is 5: excess marks that height,
\* the only one of a descent at which an edge of an obstacle or a coin can
\* meet the top of the box and the rounding decides the comparison.
BasicPlayerRect(p) ==
    [x |-> p.x,
     y |-> Scale * p.y - p.jumpHeight + (IF p.isSliding THEN Scale * 20 ELSE 0),
     width |-> Thirds * BASIC_PLAYER_WIDTH,
     height |-> IF p.isSliding THEN 6 * BASIC_PLAYER_HEIGHT ELSE Scale * BASIC_PLAYER_HEIGHT,
     excess |-> p.jumpHeight = 50]

\* the four comparisons of the code; ex, ew in thirds, ey, eh in pixels
BasicOverlaps(r, ex, ey, ew, eh) ==
    /\ ex < r.x + r.width
    /\ ex + ew > r.x
    /\ Scale * ey < r.y + r.height
    /\ \/ Scale * (ey + eh) > r.y
       \/ r.excess /\ Scale * (ey + eh) = r.y

BasicHitsObstacle(r, o) == BasicOverlaps(r, o.x, o.y, o.width, o.height)

\* mutant: a coin already collected is collected again
BasicCollectsCoin_Again(r, c) ==
    BasicOverlaps(r, c.x, c.y, Thirds * 30, 30)

BasicCollectsCoin(r, c) ==
    ~c.collected /\ BasicOverlaps(r, c.x, c.y, Thirds * 30, 30)

\* player and obstacles are those of the render the callback closed over
\* (snap); the coin scan is a functional update and sees the coins as the
\* tick has moved and spawned them (s1)
BasicCheckCollisions(snap, s1) ==
    LET r == BasicPlayerRect(snap.player)
    IN  IF \E i \in DOMAIN snap.obstacles : BasicHitsObstacle(r, snap.obstacles[i])
        THEN [s1 EXCEPT !.gameState = "gameOver"]
        ELSE LET cs == s1.gameCoins
                 got == {i \in DOMAIN cs : BasicCollectsCoin(r, cs[i])}
             IN  [s1 EXCEPT
                     !.gameCoins = [i \in DOMAIN cs |->
                                       IF i \in got THEN [cs[i] EXCEPT !.collected = TRUE]
                                       ELSE cs[i]],
                     !.coins = @ + Cardinality(got)]

\* d: the lanes drawn for an obstacle and a coin this tick spawns
BasicGameLoop(s, d) ==
    IF s.gameState # "playing" THEN s
    ELSE LET dist == s.distance + BASIC_GAME_SPEED
             so == BasicSpawnsObstacle(dist)
             sc == BasicSpawnsCoin(dist)
             obs == BasicAdvance(s.obstacles, BASIC_GAME_HEIGHT + 100)
             cns == BasicAdvance(s.gameCoins, BASIC_GAME_HEIGHT + 50)
             s1 == [s EXCEPT
                       !.player = BasicPhysics(@),
                       !.obstacles = IF so THEN Append(obs, BasicNewObstacle(s.obstacleId, d.oLane))
                                     ELSE obs,
                       !.gameCoins = IF sc THEN Append(cns, BasicNewCoin(s.coinId, d.cLane))
                                     ELSE cns,
                       !.obstacleId = IF so THEN @ + 1 ELSE @,
                       !.coinId = IF sc THEN @ + 1 ELSE @,
                       !.distance = dist,
                       !.score = dist \div 10]
         IN  BasicCheckCollisions(s, s1)

BasicCur ==
    [gameState |-> gameState, score |-> score, coins |-> coins,
     player |-> player, obstacles |-> obstacles, gameCoins |-> gameCoins,
     obstacleId |-> obstacleId, coinId |-> coinId, distance |-> distance,
     timers |-> timers]

\* the variables the variant does not have
BasicUnused ==
    <<highScore, level, powerUps, particles, powerUpId, particleId, frameCount>>

BasicIsState(n) ==
    /\ gameState = n.gameState /\ score = n.score /\ coins = n.coins
    /\ player = n.player /\ obstacles = n.obstacles /\ gameCoins = n.gameCoins
    /\ obstacleId = n.obstacleId /\ coinId = n.coinId
    /\ distance = n.distance /\ timers = n.timers
    /\ highScore = 0 /\ level = 1 /\ powerUps = <<>> /\ particles = <<>>
    /\ powerUpId = 0 /\ particleId = 0 /\ frameCount = 0

BasicBecomes(n) ==
    /\ gameState' = n.gameState /\ score' = n.score /\ coins' = n.coins
    /\ player' = n.player /\ obstacles' = n.obstacles /\ gameCoins' = n.gameCoins
    /\ obstacleId' = n.obstacleId /\ coinId' = n.coinId
    /\ distance' = n.distance /\ timers' = n.timers
    /\ UNCHANGED BasicUnused

BasicTickDraws(dist) ==
    [oLane : IF BasicSpawnsObstacle(dist) THEN Lanes ELSE {0},
     cLane : IF BasicSpawnsCoin(dist) THEN Lanes ELSE {0}]

BasicDraw(ol, cl) == [oLane |-> ol, cLane |-> cl]

RECURSIVE BasicRun(_, _, _)
BasicRun(k, s, d) ==
    IF k = 0 THEN s
    ELSE IF k = 1 THEN BasicGameLoop(s, d)
    ELSE LET half == BasicRun(k \div 2, s, d)
         IN  IF half.distance >= 0 THEN BasicRun(k - k \div 2, half, d) ELSE half

\* startGame, k1 ticks, a key, k2 ticks; every spawn of these ticks draws d
BasicUnderWay(k1, key, k2, d) ==
    BasicRun(k2, BasicHandleKeyPress(BasicRun(k1, BasicStartGame(BasicConstructed), d), key), d)

\* The component as constructed, and sessions under way.  Obstacles are
\* spawned on ticks 24, 48, 72, ... and coins on ticks 36, 72, ...; an
\* obstacle is spawned in the player's row and overlaps a player of its lane
\* for 12 ticks.  35 ticks: the obstacle of tick 24 is in its last
\* overlapping tick when the first coin is spawned.  71 ticks: tick 72
\* spawns an obstacle and a coin, and tick 74 removes the obstacle of tick
\* 24.  A jump after tick 12 is back down at jumpHeight 5 after tick 144,
\* which spawns a coin: slid under, the coin's lower edge meets the top of
\* the box on tick 145.
BasicScenarios ==
    {<<0, "none", 0, BasicDraw(0, 1)>>, <<23, "none", 0, BasicDraw(0, 1)>>}
    \cup {<<35, "none", 0, BasicDraw(ol, 1)>> : ol \in {0, 2}}
    \cup {<<71, "none", 0, BasicDraw(0, cl)>> : cl \in {1, 2}}
    \cup {<<12, " ", 132, BasicDraw(0, 2)>>}

BasicInit ==
    \E sc \in BasicScenarios :
        /\ IF sc[1] = 0 THEN BasicIsState(BasicConstructed) /\ session = 0
           ELSE BasicIsState(BasicUnderWay(sc[1], sc[2], sc[3], sc[4])) /\ session = 1
        /\ ticksLeft = BasicTicks

BasicTick ==
    /\ gameState = "playing"
    /\ ticksLeft > 0
    /\ \E d \in BasicTickDraws(distance + BASIC_GAME_SPEED) :
           BasicBecomes(BasicGameLoop(BasicCur, d))
    /\ ticksLeft' = ticksLeft - 1
    /\ UNCHANGED session

BasicKeyPress ==
    \E key \in BasicKeys :
        /\ (gameState = "playing" /\ key = "ArrowDown") => Len(timers) < MaxSlideTimers
        /\ BasicBecomes(BasicHandleKeyPress(BasicCur, key))
        /\ UNCHANGED <<ticksLeft, session>>

\* the buttons Start Running! and Try Again
BasicClickStart ==
    /\ gameState \in {"start", "gameOver"}
    /\ session < MaxSessions
    /\ BasicBecomes(BasicStartGame(BasicCur))
    /\ session' = session + 1
    /\ UNCHANGED ticksLeft

BasicClickMainMenu ==
    /\ gameState = "gameOver"
    /\ BasicBecomes(BasicResetGame(BasicCur))
    /\ UNCHANGED <<ticksLeft, session>>

BasicTimeout ==
    /\ timers # <<>>
    /\ BasicBecomes(BasicFireTimer(BasicCur))
    /\ UNCHANGED <<ticksLeft, session>>

BasicNext ==
    BasicTick \/ BasicKeyPress \/ BasicClickStart \/ BasicClickMainMenu \/ BasicTimeout

BasicSpec == BasicInit /\ [][BasicNext]_vars

TypeOK ==
    /\ gameState \in {"start", "playing", "paused", "gameOver"}
    /\ player.lane \in Lanes
    /\ player.health \in 0..player.maxHealth

(***************************************************************************)
(* Properties                                                              *)
(***************************************************************************)
\* a step of gameLoop: the only step that advances frameCountRef
TickStep == frameCount' = frameCount + 1

\* a step that runs the callback of timer i
TimeoutStep(i) == CanFire(Cur, i) /\ Becomes(FireTimer(Cur, i))

\* the first overlapping obstacle of the current render, 0 if none
Overlapping == FirstHit(PlayerRect(player), obstacles)

\* some power-up is collected in this step
PicksUpPowerUp ==
    \E i \in DOMAIN powerUps' :
        /\ powerUps'[i].collected
        /\ \E j \in DOMAIN powerUps :
              powerUps[j].id = powerUps'[i].id /\ ~powerUps[j].collected

\* C1: a slide-clear or invulnerability-clear timer scheduled in an earlier
\* session never changes isSliding or isInvulnerable of the current session.
C1_StaleTimerHarmless ==
    [][\A i \in DOMAIN timers :
          (TimeoutStep(i) /\ timers[i].session < session)
              => /\ player'.isSliding = player.isSliding
                 /\ player'.isInvulnerable = player.isInvulnerable]_vars

\* C2: the sub-updates of a tick take effect in the order physics,
\* translation, spawn, collision resolution, power-up countdown, score/level,
\* terminal check: a power-up collected in a tick has already been counted
\* down once at the end of that tick, and the high score taken on entering
\* gameOver is the score that same tick computed.
C2_TickOrder ==
    [][TickStep =>
          /\ PicksUpPowerUp => player'.powerUpTimer = POWERUP_DURATION - TICK_MS
          /\ gameState' = "gameOver" => highScore' = Max(highScore, score')]_vars

\* C3: a tick executed while isInvulnerable is true never lowers health.
C3_InvulnerableKeepsHealth ==
    [][(TickStep /\ player.isInvulnerable) => player'.health >= player.health]_vars

C3_Witness ==
    /\ gameState = "playing"
    /\ player.isInvulnerable
    /\ player.health = 75
    /\ Overlapping # 0
    /\ \E i \in DOMAIN particles : particles[i].color = RED /\ particles[i].life < 100
    /\ ticksLeft < MaxTicks

\* C4: a tick in which the player's box overlaps an obstacle while the active
\* power-up is shield leaves health unchanged and emits a burst of particles
\* at the player.
C4_ShieldOverlap ==
    [][(TickStep /\ player.powerUpActive /\ player.powerUpType = "shield"
          /\ Overlapping # 0) =>
          /\ player'.health = player.health
          /\ particleId' > particleId
          /\ \A id \in particleId..(particleId' - 1) :
                \E i \in DOMAIN particles' :
                    /\ particles'[i].id = id
                    /\ particles'[i].x0 = player.x + PLAYER_WIDTH \div 2
                    /\ particles'[i].y0 = player.y]_vars

C4_Witness ==
    /\ player.powerUpActive /\ player.powerUpType = "shield"
    /\ player.health = 100
    /\ Overlapping # 0
    /\ \E i \in DOMAIN particles :
          /\ particles[i].color = BLUE
          /\ particles[i].y0 = player.y
          /\ particles[i].x0 = player.x + PLAYER_WIDTH \div 2

\* not invulnerable and no active shield
Unprotected ==
    /\ ~player.isInvulnerable
    /\ ~(player.powerUpActive /\ player.powerUpType = "shield")

\* C5: a tick where the player is not invulnerable, has no active shield and
\* overlaps an obstacle lowers health by exactly 25 (floored at 0) and sets
\* isInvulnerable; nothing else lowers health.
C5_DamagingHit ==
    [][/\ (TickStep /\ Unprotected /\ Overlapping # 0)
            => /\ player'.health = Max(0, player.health - 25)
               /\ player'.isInvulnerable
       /\ player'.health < player.health
            => (TickStep /\ Unprotected /\ Overlapping # 0)]_vars

C5_Witness ==
    /\ player.health = 50
    /\ player.isInvulnerable
    /\ gameState = "playing"

\* C6: 0 <= health <= maxHealth always, and health is never 0 while the phase
\* is playing or paused.
C6_HealthRange ==
    /\ 0 <= player.health
    /\ player.health <= player.maxHealth
    /\ gameState \in {"playing", "paused"} => player.health > 0

C6_Witness == gameState = "gameOver" /\ player.health = 0

\* C7: a damaging hit that takes health to 0 makes the phase gameOver and
\* highScore the larger of the previous highScore and the session's score at
\* that tick, so that highScore >= score in gameOver; a damaging hit that
\* leaves health > 0 keeps the phase playing and highScore unchanged.
C7_HighScoreAtDeath ==
    [][(TickStep /\ player'.health < player.health) =>
          IF player'.health = 0
          THEN /\ gameState' = "gameOver"
               /\ highScore' = Max(highScore, score')
               /\ highScore' >= score'
          ELSE /\ gameState' = "playing"
               /\ highScore' = highScore]_vars

\* C8: a start command in phase start or gameOver gives phase playing with
\* distance, score and coin total 0, level 1, empty collections and the
\* player in the initial pose with full health, whatever was there before.
C8_StartResets ==
    [][(gameState \in {"start", "gameOver"} /\ gameState' = "playing") =>
          /\ distance' = 0 /\ score' = 0 /\ coins' = 0 /\ level' = 1
          /\ obstacles' = <<>> /\ gameCoins' = <<>>
          /\ powerUps' = <<>> /\ particles' = <<>>
          /\ player'.lane = 1 /\ player'.x = 430 /\ player'.y = 500
          /\ ~player'.isJumping /\ ~player'.isSliding
          /\ player'.jumpHeight = 0 /\ player'.jumpVelocity = 0
          /\ player'.health = 100 /\ player'.maxHealth = 100
          /\ ~player'.isInvulnerable
          /\ ~player'.powerUpActive /\ player'.powerUpType = "null"
          /\ player'.powerUpTimer = 0]_vars

\* a second session just started after one that ended in gameOver or left
\* particles and a high score behind
C8_Witness ==
    /\ session = 2
    /\ gameState = "playing"
    /\ frameCount = 0
    /\ particleId > 0
    /\ highScore > 0

\* C9: 0 <= jumpHeight <= MAX_JUMP_HEIGHT always, and jumpHeight = 0 implies
\* jumpVelocity = 0.
C9_JumpRange ==
    /\ 0 <= player.jumpHeight
    /\ player.jumpHeight <= MAX_JUMP_HEIGHT * Scale
    /\ player.jumpHeight = 0 => player.jumpVelocity = 0

\* C10: the lane is always 0, 1 or 2; moveLeft at lane 0 and moveRight at
\* lane 2 leave the player unchanged; any other moveLeft / moveRight while
\* playing changes the lane by exactly one, centres the player's box on the
\* new lane and changes nothing else of the player.
C10_LaneMoves ==
    /\ [](player.lane \in {0, 1, 2})
    /\ [][\A key \in {"ArrowLeft", "ArrowRight"} :
            (gameState = "playing" /\ Becomes(HandleKeyPress(Cur, key))) =>
               LET step == IF key = "ArrowLeft" THEN -1 ELSE 1
                   edge == IF key = "ArrowLeft" THEN 0 ELSE 2
               IN  IF player.lane = edge
                   THEN player' = player
                   ELSE /\ player'.lane = player.lane + step
                        /\ 2 * player'.x + PLAYER_WIDTH
                             = 2 * player'.lane * LANE_WIDTH + LANE_WIDTH
                        /\ player' = [player EXCEPT !.lane = player'.lane,
                                                    !.x = player'.x]]_vars

C10_Witness ==
    /\ gameState = "playing"
    /\ player.lane = 0
    /\ player.x = 130

\* the power-ups of the next render that this step has collected
NewlyCollected ==
    {i \in DOMAIN powerUps' :
        /\ powerUps'[i].collected
        /\ ~\E j \in DOMAIN powerUps :
               powerUps[j].id = powerUps'[i].id /\ powerUps[j].collected}

\* C11: a tick that collects a power-up while the slot is active leaves the
\* slot active with the kind of the (last) collected power-up and the full
\* 10000 ms; nothing of the old kind or the old remaining time survives.
C11_PowerUpOverwrites ==
    [][(TickStep /\ player.powerUpActive /\ NewlyCollected # {}) =>
          LET last == CHOOSE i \in NewlyCollected : \A j \in NewlyCollected : j <= i
          IN  /\ player'.powerUpActive
              /\ player'.powerUpType = powerUps'[last].type
              /\ player'.powerUpTimer = POWERUP_DURATION]_vars

\* tick 172 has collected the second power-up (id 1) 50 ticks after the
\* first, which still had 9200 ms to run
C11_Witness ==
    /\ frameCount = 172
    /\ player.powerUpType = "magnet"
    /\ player.powerUpTimer = POWERUP_DURATION
    /\ \E i \in DOMAIN powerUps :
          powerUps[i].id = 1 /\ powerUps[i].collected /\ powerUps[i].type = "magnet"

\* the coins of the next render that this step has collected
NewlyCollectedCoins ==
    {i \in DOMAIN gameCoins' :
        /\ gameCoins'[i].collected
        /\ ~\E j \in DOMAIN gameCoins :
               gameCoins[j].id = gameCoins'[i].id /\ gameCoins[j].collected}

\* the summed value of the coins after[1..i] that were not collected before
RECURSIVE Gain(_, _, _)
Gain(before, after, i) ==
    IF i = 0 THEN 0
    ELSE Gain(before, after, i - 1) +
         (IF /\ after[i].collected
             /\ ~\E j \in DOMAIN before :
                    before[j].id = after[i].id /\ before[j].collected
          THEN after[i].value ELSE 0)

\* an already collected coin or power-up is under the player in this tick's test
Retested ==
    \/ \E i \in DOMAIN gameCoins :
          /\ gameCoins[i].collected
          /\ Overlaps(PlayerRect(player), gameCoins[i].x, gameCoins[i].y + GAME_SPEED, 30, 30)
    \/ \E i \in DOMAIN powerUps :
          /\ powerUps[i].collected
          /\ Overlaps(PlayerRect(player), powerUps[i].x, powerUps[i].y + GAME_SPEED, 40, 40)

\* C12: a collected flag never reverts, and a tick that re-tests a collected
\* coin or power-up under the player adds only the values of the coins it
\* newly collects, emits only the bursts of its new pickups and, without a
\* new power-up pickup, leaves the player to the tick's physics and countdown.
C12_CollectedIdempotent ==
    /\ [][/\ \A i \in DOMAIN gameCoins : \A j \in DOMAIN gameCoins' :
                (gameCoins[i].id = gameCoins'[j].id /\ gameCoins[i].collected)
                   => gameCoins'[j].collected
          /\ \A i \in DOMAIN powerUps : \A j \in DOMAIN powerUps' :
                (powerUps[i].id = powerUps'[j].id /\ powerUps[i].collected)
                   => powerUps'[j].collected]_vars
    /\ [][(TickStep /\ Retested /\ Overlapping = 0) =>
            /\ coins' = coins + Gain(gameCoins, gameCoins', Len(gameCoins'))
            /\ particleId' = particleId + 8 * Cardinality(NewlyCollectedCoins)
                                        + 12 * Cardinality(NewlyCollected)
            /\ Len(particles') <= Len(particles) + 8 * Cardinality(NewlyCollectedCoins)
                                                 + 12 * Cardinality(NewlyCollected)
            /\ NewlyCollected = {} =>
                  /\ player'.powerUpType = player.powerUpType \/ player'.powerUpType = "null"
                  /\ player'.powerUpTimer \in {player.powerUpTimer, player.powerUpTimer - TICK_MS}
                  /\ player'.health = player.health]_vars

\* tick 125 has re-tested coin 1, collected by tick 124 and still under the
\* player; the total is that of coins 0 and 1, counted once each
C12_Witness ==
    /\ frameCount = 125
    /\ \E i \in DOMAIN gameCoins :
          /\ gameCoins[i].id = 1
          /\ gameCoins[i].collected
          /\ Overlaps(PlayerRect(player), gameCoins[i].x, gameCoins[i].y, 30, 30)
          /\ coins = 2 * gameCoins[i].value

\* the entities of before whose translated y is below bound are exactly the
\* entities of after's first n places, in order and translated
Pruned(before, after, bound) ==
    /\ \A i \in DOMAIN before :
          (\E j \in DOMAIN after : after[j].id = before[i].id)
             <=> ~(before[i].y + GAME_SPEED >= bound)
    /\ \A i \in DOMAIN before : \A j \in DOMAIN after :
          after[j].id = before[i].id =>
             /\ after[j].y = before[i].y + GAME_SPEED
             /\ after[j].x = before[i].x

\* C13: a tick removes an obstacle exactly when its translated y has reached
\* GAME_HEIGHT + 100, a coin or power-up exactly when its translated y has
\* reached GAME_HEIGHT + 50, whatever its collected flag; every other entity,
\* picked up or not, stays in its collection, translated by GAME_SPEED.
C13_RemovedAtFarBound ==
    [][TickStep =>
          /\ Pruned(obstacles, obstacles', GAME_HEIGHT + 100)
          /\ Pruned(gameCoins, gameCoins', GAME_HEIGHT + 50)
          /\ Pruned(powerUps, powerUps', GAME_HEIGHT + 50)]_vars

\* tick 129 has removed coin 0, collected at tick 99, and kept coin 1,
\* collected at tick 124
C13_Witness ==
    /\ frameCount = 129
    /\ coins = 2 * CoinValue("gold")
    /\ \A i \in DOMAIN gameCoins : gameCoins[i].id # 0
    /\ \E i \in DOMAIN gameCoins : gameCoins[i].id = 1 /\ gameCoins[i].collected

\* the obstacles of the next render that the current render does not hold
NewObstacles ==
    {j \in DOMAIN obstacles' :
        \A i \in DOMAIN obstacles : obstacles[i].id # obstacles'[j].id}

\* C14: a tick appends exactly one new obstacle when the distance it has
\* reached is an exact multiple of the obstacle interval and none otherwise;
\* the new obstacle is the last of the collection, has a lane in {0, 1, 2},
\* the next unused id, and sits at the spawn origin y = 50 when the tick ends.
C14_ObstacleSpawn ==
    [][TickStep =>
          IF distance' % OBSTACLE_INTERVAL = 0
          THEN /\ NewObstacles = {Len(obstacles')}
               /\ LET o == obstacles'[Len(obstacles')]
                  IN  /\ o.lane \in {0, 1, 2}
                      /\ o.id = obstacleId
                      /\ o.y = 50
                      /\ 2 * o.x + o.width = 2 * o.lane * LANE_WIDTH + LANE_WIDTH
               /\ obstacleId' = obstacleId + 1
          ELSE /\ NewObstacles = {}
               /\ obstacleId' = obstacleId]_vars

\* tick 50 has reached distance 300 and appended the first obstacle
C14_Witness ==
    /\ frameCount = 50
    /\ distance = 3 * OBSTACLE_INTERVAL
    /\ Len(obstacles) = 1
    /\ obstacles[1].id = 0
    /\ obstacles[1].lane = 2
    /\ obstacles[1].y = 50

\* C15: a tick that collects coins and no power-up adds to the coin total
\* exactly the values of the kinds collected (normal 1, gold 5, diamond 10);
\* the obstacles and the other coins are only translated, the collected
\* coins only translated and flagged, and the player's health,
\* invulnerability and power-up slot are those the tick's countdown leaves.
C15_CoinPickup ==
    [][(TickStep /\ NewlyCollectedCoins # {} /\ NewlyCollected = {}) =>
          /\ \A j \in NewlyCollectedCoins :
                gameCoins'[j].value = CASE gameCoins'[j].type = "normal" -> 1
                                        [] gameCoins'[j].type = "gold" -> 5
                                        [] gameCoins'[j].type = "diamond" -> 10
          /\ coins' = coins + Gain(gameCoins, gameCoins', Len(gameCoins'))
          /\ \A i \in DOMAIN obstacles : \A j \in DOMAIN obstacles' :
                obstacles'[j].id = obstacles[i].id =>
                   obstacles'[j] = MoveObstacle(obstacles[i])
          /\ NewObstacles = {} \/ NewObstacles = {Len(obstacles')}
          /\ \A i \in DOMAIN gameCoins : \A j \in DOMAIN gameCoins' :
                gameCoins'[j].id = gameCoins[i].id =>
                   gameCoins'[j] = IF j \in NewlyCollectedCoins
                                   THEN [MoveCoin(gameCoins[i]) EXCEPT !.collected = TRUE]
                                   ELSE MoveCoin(gameCoins[i])
          /\ player'.health = player.health
          /\ player'.isInvulnerable = player.isInvulnerable
          /\ player'.powerUpActive = PowerUpCountdown(player).powerUpActive
          /\ player'.powerUpType = PowerUpCountdown(player).powerUpType
          /\ player'.powerUpTimer = PowerUpCountdown(player).powerUpTimer]_vars

\* tick 124 has collected the diamond coin 1, after coin 0 at tick 99
C15_Witness ==
    /\ frameCount = 124
    /\ coins = 20
    /\ \E i \in DOMAIN gameCoins :
          /\ gameCoins[i].id = 1
          /\ gameCoins[i].type = "diamond"
          /\ gameCoins[i].collected

\* the phase changes of the state machine as the specification lists them
ListedTransitions ==
    {<<"start", "playing">>, <<"playing", "paused">>, <<"paused", "playing">>,
     <<"playing", "gameOver">>, <<"gameOver", "playing">>}

\* C16 as stated: the phase changes only along start -> playing,
\* playing -> paused, paused -> playing, playing -> gameOver and
\* gameOver -> playing, and gameOver is entered only from playing, in a tick.
C16_ListedTransitionsOnly ==
    /\ [][gameState' # gameState => <<gameState, gameState'>> \in ListedTransitions]_vars
    /\ [][(gameState' = "gameOver" /\ gameState # "gameOver") =>
             (gameState = "playing" /\ TickStep)]_vars

\* C16: the phase changes only along the listed transitions and the two of
\* the Main Menu button, paused -> start and gameOver -> start; gameOver is
\* entered only from playing, in a tick.
C16_PhaseTransitions ==
    /\ [][gameState' # gameState =>
             <<gameState, gameState'>> \in
                ListedTransitions \cup {<<"paused", "start">>, <<"gameOver", "start">>}]_vars
    /\ [][(gameState' = "gameOver" /\ gameState # "gameOver") =>
             (gameState = "playing" /\ TickStep)]_vars

\* back on the start screen after a session that ended in gameOver
C16_Witness ==
    /\ gameState = "start"
    /\ session >= 1
    /\ player.health = 0

\* C17: a step taken in start, paused or gameOver that is not the start
\* command leaves distance, score, level, coin total, the entity
\* collections, the particles, the jump state and the power-up slot as they
\* are; a pause or a resume changes nothing but the phase.
C17_IdlePhases ==
    /\ [][(/\ gameState \in {"start", "paused", "gameOver"}
           /\ ~(gameState \in {"start", "gameOver"} /\ gameState' = "playing")) =>
             /\ UNCHANGED <<distance, frameCount, score, level, coins>>
             /\ UNCHANGED <<obstacles, gameCoins, powerUps, particles>>
             /\ player'.isJumping = player.isJumping
             /\ player'.jumpHeight = player.jumpHeight
             /\ player'.jumpVelocity = player.jumpVelocity
             /\ player'.powerUpActive = player.powerUpActive
             /\ player'.powerUpType = player.powerUpType
             /\ player'.powerUpTimer = player.powerUpTimer]_vars
    /\ [][(<<gameState, gameState'>> \in
                {<<"playing", "paused">>, <<"paused", "playing">>}) =>
             Becomes([Cur EXCEPT !.gameState = gameState'])]_vars

\* paused in mid-jump with a power-up counting down
C17_Witness ==
    /\ gameState = "paused"
    /\ player.jumpHeight > 0
    /\ player.powerUpActive
    /\ player.powerUpTimer < POWERUP_DURATION

\* C18: a slide-clear or invulnerability-clear timer that runs while the
\* phase is paused or gameOver, hence one left over from the stay in playing
\* that scheduled it, does not change the player.
C18_TimersInvalidated ==
    [][\A i \in DOMAIN timers :
          (gameState \in {"paused", "gameOver"} /\ TimeoutStep(i)) =>
             player' = player]_vars

\* C19: in every phase every key has an outcome; in start, paused and
\* gameOver the keys of moveLeft, moveRight, jump and slide leave the whole
\* state, pending timers included, as it is, and so does the pause key in
\* start and gameOver.
C19_CommandsOutsidePlaying ==
    /\ \A key \in Keys :
          HandleKeyPress(Cur, key).gameState \in {"start", "playing", "paused", "gameOver"}
    /\ gameState \in {"start", "paused", "gameOver"} =>
          \A key \in {"ArrowLeft", "ArrowRight", "ArrowUp", "ArrowDown"} :
             HandleKeyPress(Cur, key) = Cur
    /\ gameState \in {"start", "gameOver"} => HandleKeyPress(Cur, "p") = Cur

\* paused on the ground in lane 1: each of the four keys would act in playing
C19_Witness ==
    /\ gameState = "paused"
    /\ player.lane = 1
    /\ player.jumpHeight = 0
    /\ ~player.isSliding
    /\ timers = <<>>

\* C20: highScore never decreases, and in start and gameOver it is at least
\* the score the sessions so far have reached (score keeps the last
\* session's final value until the next startGame).
C20_HighScoreIsMax ==
    /\ [][highScore' >= highScore]_vars
    /\ [](gameState \in {"start", "gameOver"} => highScore >= score)

\* C21: in paused, the Space key and the P key each resume: the handler
\* leaves the state as it is but for the phase, which becomes playing.
C21_SpaceAndPResume ==
    gameState = "paused" =>
       \A key \in {" ", "p"} :
          HandleKeyPress(Cur, key) = [Cur EXCEPT !.gameState = "playing"]

\* C22: a tick marks every not yet collected coin under the player collected
\* and adds its value, and collects every not yet collected power-up under
\* the player, whether or not the player is invulnerable.
C22_PickupsDespiteInvulnerable ==
    [][TickStep =>
          /\ \A i \in DOMAIN gameCoins : \A j \in DOMAIN gameCoins' :
                (/\ gameCoins'[j].id = gameCoins[i].id
                 /\ ~gameCoins[i].collected
                 /\ Overlaps(PlayerRect(player), gameCoins[i].x,
                             gameCoins[i].y + GAME_SPEED, 30, 30))
                   => (gameCoins'[j].collected /\ coins' >= coins + gameCoins[i].value)
          /\ \A i \in DOMAIN powerUps : \A j \in DOMAIN powerUps' :
                (/\ powerUps'[j].id = powerUps[i].id
                 /\ ~powerUps[i].collected
                 /\ Overlaps(PlayerRect(player), powerUps[i].x,
                             powerUps[i].y + GAME_SPEED, 40, 40))
                   => powerUps'[j].collected]_vars

\* neighbours of a collection lie gap units apart along the scroll axis
Spaced(es, gap) == \A i \in 1..(Len(es) - 1) : es[i].y - es[i + 1].y = gap

\* C23: successive spawns of one category lie one spawn interval of scroll
\* distance apart: after every tick the neighbours in a collection, which
\* scroll together, are 100 units apart for obstacles, 150 for coins and 300
\* for power-ups.
C23_SpawnSpacing ==
    [][TickStep =>
          /\ Spaced(obstacles', 100)
          /\ Spaced(gameCoins', 150)
          /\ Spaced(powerUps', 300)]_vars

\* C24: a slide lasts until the timer of its own command runs: while a later
\* slide command of the same session still waits for its timer, the timer of
\* an earlier one leaves isSliding true.
C24_SlideFullDuration ==
    [][\A i \in DOMAIN timers :
          (/\ TimeoutStep(i)
           /\ timers[i].kind = "slide"
           /\ \E j \in DOMAIN timers :
                 /\ j > i
                 /\ timers[j].kind = "slide"
                 /\ timers[j].session = session
                 /\ timers[i].session = session)
             => player'.isSliding]_vars

\* C25: in every state at most one obstacle overlaps the player's box, and
\* the live obstacles lie 300 units apart along the scroll axis.
C25_OneObstacleAtATime ==
    /\ Cardinality({i \in DOMAIN obstacles :
                       HitsObstacle(PlayerRect(player), obstacles[i])}) <= 1
    /\ Spaced(obstacles, 300)

\* two obstacles are live and the older one is on the player
C25_Witness ==
    /\ gameState = "playing"
    /\ Len(obstacles) = 2
    /\ HitsObstacle(PlayerRect(player), obstacles[1])
    /\ ~HitsObstacle(PlayerRect(player), obstacles[2])

\* the health power-ups among those this step has collected
NewlyCollectedHealth == {i \in NewlyCollected : powerUps'[i].type = "health"}

\* C26: a tick that collects a health power-up ends with health
\* min(maxHealth, health + 25) and with the slot active, of kind health and
\* at 10000 ms, whatever the slot held; a tick that collects only other
\* kinds leaves health unchanged.
C26_HealthPowerUp ==
    [][(TickStep /\ NewlyCollected # {}) =>
          /\ player'.health =
                Min(player.maxHealth,
                    player.health + 25 * Cardinality(NewlyCollectedHealth))
          /\ (Cardinality(NewlyCollected) = 1 /\ NewlyCollectedHealth # {}) =>
                /\ player'.powerUpActive
                /\ player'.powerUpType = "health"
                /\ player'.powerUpTimer = 10000]_vars

\* the player, hit at tick 113 (burst of 15), has collected the health
\* power-up (burst of 12) after the invulnerability ended: health 75 to 100
C26_Witness ==
    /\ particleId = 27
    /\ ~player.isInvulnerable
    /\ player.health = 100
    /\ player.powerUpType = "health"
    /\ player.powerUpTimer = 10000

\* C27: a tick that collects no power-up takes 16 off the remaining time of
\* an active slot and clears the slot (inactive, no kind) when that reaches
\* 0 or less; a step taken while paused leaves the remaining time alone; in
\* the session followed beyond tick 745 the power-up collected at tick 122
\* and never overwritten is active up to tick 746 and cleared by tick 747,
\* 625 ticks later.
C27_Countdown ==
    /\ [][(TickStep /\ NewlyCollected = {} /\ player.powerUpActive
                    /\ player.powerUpTimer > 0) =>
             /\ player'.powerUpTimer = player.powerUpTimer - 16
             /\ IF player.powerUpTimer - 16 <= 0
                THEN ~player'.powerUpActive /\ player'.powerUpType = "null"
                ELSE player'.powerUpActive /\ player'.powerUpType = player.powerUpType]_vars
    /\ [][gameState = "paused" => player'.powerUpTimer = player.powerUpTimer]_vars
    /\ [](frameCount >= 745 =>
             /\ player.powerUpActive <=> frameCount < 122 + 625
             /\ player.powerUpTimer = Max(0, 10000 - 16 * (frameCount - 122)))

\* tick 747 has cleared the slot of the power-up collected at tick 122
C27_Witness ==
    /\ frameCount = 122 + 625
    /\ particleId = 12
    /\ ~player.powerUpActive
    /\ player.powerUpType = "null"
    /\ player.powerUpTimer = 0

\* C28: in every state powerUpActive holds iff powerUpType is not null iff
\* powerUpTimer > 0, and powerUpTimer is a multiple of 16 from 0 to 10000.
C28_SlotFieldsAgree ==
    /\ player.powerUpActive <=> player.powerUpType # "null"
    /\ player.powerUpActive <=> player.powerUpTimer > 0
    /\ player.powerUpTimer % 16 = 0
    /\ player.powerUpTimer >= 0
    /\ player.powerUpTimer <= 10000

\* the last tick of an active slot
C28_Witness ==
    /\ player.powerUpActive
    /\ player.powerUpType = "shield"
    /\ player.powerUpTimer = 16

\* C29: after every tick score = floor(distance / 10) and
\* level = floor(score / 100) + 1, with distance 6 times the number of ticks
\* of the session; no step within a session lowers score or level.
C29_ScoreAndLevel ==
    /\ [][TickStep =>
             /\ distance' = 6 * frameCount'
             /\ score' = distance' \div 10
             /\ level' = score' \div 100 + 1]_vars
    /\ [][session' = session => (score' >= score /\ level' >= level)]_vars

\* tick 167 has raised the level to 2
C29_Witness ==
    /\ frameCount = 167
    /\ distance = 1002
    /\ score = 100
    /\ level = 2

\* C30: while playing, a jump key starts a jump (isJumping = true) only at
\* jumpHeight = 0; at jumpHeight > 0, rising or falling, it leaves the
\* player and the rest of the state unchanged.
C30_NoMidAirJump ==
    gameState = "playing" =>
       \A key \in {" ", "ArrowUp"} :
          HandleKeyPress(Cur, key) =
             IF player.jumpHeight = 0
             THEN [Cur EXCEPT !.player.isJumping = TRUE, !.player.jumpVelocity = 0]
             ELSE Cur

\* in mid-air and falling, where a jump key is ignored
C30_Witness ==
    /\ gameState = "playing"
    /\ player.jumpHeight > 0
    /\ ~player.isJumping

\* C31: while rising, jumpVelocity is k * JUMP_POWER after the k-th tick of
\* the ascent and jumpHeight the sum of the velocities so far; the tick that
\* takes jumpHeight to MAX_JUMP_HEIGHT or more ends the ascent with
\* jumpVelocity 0; every later tick takes GRAVITY off jumpHeight, never below
\* 0 and with jumpVelocity 0; and a jump started with enough ticks to come
\* ends on the floor, jumpHeight 0 and jumpVelocity 0.
C31_JumpCompletes ==
    /\ [](player.isJumping =>
             \E k \in 0..3 :
                /\ player.jumpVelocity = k * 18 * Scale
                /\ 2 * player.jumpHeight = k * (k + 1) * 18 * Scale)
    /\ [][(TickStep /\ player.isJumping) =>
             LET v == player.jumpVelocity + 18 * Scale
             IN  /\ player'.jumpHeight = player.jumpHeight + v
                 /\ IF player'.jumpHeight >= 120 * Scale
                    THEN ~player'.isJumping /\ player'.jumpVelocity = 0
                    ELSE player'.isJumping /\ player'.jumpVelocity = v]_vars
    /\ [][(TickStep /\ ~player.isJumping /\ player.jumpHeight > 0) =>
             /\ player'.jumpHeight = Max(0, player.jumpHeight - 9)
             /\ player'.jumpVelocity = 0
             /\ ~player'.isJumping]_vars
    /\ (player.isJumping /\ ticksLeft >= 204)
          ~> (~player.isJumping /\ player.jumpHeight = 0 /\ player.jumpVelocity = 0
              /\ frameCount > 0)

\* the last tick of a fall: one step of GRAVITY above the floor
C31_Witness ==
    /\ gameState = "playing"
    /\ ~player.isJumping
    /\ player.jumpHeight = 9
    /\ player.jumpVelocity = 0
    /\ ticksLeft > 0


\* a step of the variant's gameLoop: the only step that advances distanceRef
BasicTickStep == distance' = distance + BASIC_GAME_SPEED

\* the rendered player's box overlaps an obstacle of the render
BasicHit ==
    \E i \in DOMAIN obstacles :
        BasicOverlaps(BasicPlayerRect(player), obstacles[i].x, obstacles[i].y,
                      obstacles[i].width, obstacles[i].height)

\* the coin was in the collection before the step, collected already
BasicWasCollected(c) ==
    \E j \in DOMAIN gameCoins : gameCoins[j].id = c.id /\ gameCoins[j].collected

\* the coin, where the tick has put it, overlaps the rendered player's box
BasicCoinOverlap(c) ==
    BasicOverlaps(BasicPlayerRect(player), c.x, c.y, Thirds * 30, 30)

\* C33: in the health-less variant a tick in which the player's box overlaps
\* an obstacle sets the phase to gameOver and collects no coin; a tick
\* without obstacle overlap collects each overlapping uncollected coin (and
\* no other) and adds exactly 1 per collected coin to the coin total.
C33_BasicCollisions ==
    [][BasicTickStep =>
          LET new == {i \in DOMAIN gameCoins' :
                         gameCoins'[i].collected /\ ~BasicWasCollected(gameCoins'[i])}
          IN  IF BasicHit
              THEN gameState' = "gameOver" /\ new = {} /\ coins' = coins
              ELSE /\ gameState' = "playing"
                   /\ \A i \in DOMAIN gameCoins' :
                         ~BasicWasCollected(gameCoins'[i]) =>
                             (gameCoins'[i].collected <=> BasicCoinOverlap(gameCoins'[i]))
                   /\ coins' = coins + Cardinality(new)]_vars

\* the session ended on an obstacle with one coin collected before and an
\* overlapping coin left uncollected
C33_Witness ==
    /\ gameState = "gameOver"
    /\ BasicHit
    /\ coins = 1
    /\ \E i \in DOMAIN gameCoins : gameCoins[i].collected
    /\ \E i \in DOMAIN gameCoins :
          ~gameCoins[i].collected /\ BasicCoinOverlap(gameCoins[i])

=============================================================================
